---- MODULE Spec2Model ----
(***************************************************************************)
(* Model of internal/config/config.go: the rcon-cli configuration loader.  *)
(* A Config is a map from environment name to Session.  NewConfig loads it *)
(* from an explicit file, or from the first existing candidate (the XDG    *)
(* config file, then rcon.yaml in the working directory), and validates    *)
(* the protocol type of every entry.                                       *)
(*                                                                         *)
(* File names are sequences of one-character strings so that path.Ext is   *)
(* computed, not assumed.  The file system and the XDG resolution are the  *)
(* environment: they are drawn from bounded sets in Init.                  *)
(***************************************************************************)
EXTENDS Integers, Sequences, FiniteSets, TLC

\* ------------------------------------------------------------------ bounds
\* Largest number of entries in a document stored in a file.
MaxDocEntries == 1
\* Largest number of entries of a Config handed to Validate in SpecValidate.
MaxEntries == 2

\* --------------------------------------------------------------- constants
DefaultConfigName == <<"r", "c", "o", "n", ".", "y", "a", "m", "l">>
DefaultConfigEnv == "default"

\* Protocol discriminators (declared next to Session, outside config.go).
ProtocolRCON == "rcon"
ProtocolTELNET == "telnet"
ProtocolWebRCON == "web-rcon"

\* Session{Address, Password, Type}; the zero value has three empty strings.
EmptySession == [Address |-> "", Password |-> "", Type |-> ""]
SessionOf(t) == [Address |-> "127.0.0.1:16260", Password |-> "password", Type |-> t]

\* filepath.Join("gorcon", DefaultConfigName) below the user's config home.
XDGConfigPath == <<"~", "/", "g", "o", "r", "c", "o", "n", "/">> \o DefaultConfigName

\* ------------------------------------------------------------ input domains
Keys == {DefaultConfigEnv, "staging"}
ValidateKeys == Keys \cup {"prod"}
AllTypes == {"", ProtocolRCON, ProtocolTELNET, ProtocolWebRCON, "bogus"}
DocTypes == {ProtocolRCON, "bogus"}

JsonName == <<"a", ".", "j", "s", "o", "n">>
YmlName == <<"b", ".", "y", "m", "l">>
TxtName == <<"c", ".", "t", "x", "t">>
UpperName == <<"d", ".", "Y", "A", "M", "L">>
NoExtName == <<"e", ".", "d", "/", "f">>
ExplicitNames == {JsonName, YmlName, TxtName, UpperName, NoExtName}
Paths == ExplicitNames \cup {XDGConfigPath, DefaultConfigName}
\* Arguments of NewConfig / ParseFromFile: "" or an explicit file name.
Names == ExplicitNames \cup {<<>>}

\* Config values: functions from a finite set of keys to Sessions.
EmptyConfig == [k \in {} |-> EmptySession]
ConfigsOver(keys, sessions, n) ==
  UNION {[d -> sessions] : d \in {s \in SUBSET keys : Cardinality(s) <= n}}
Docs == ConfigsOver(Keys, {SessionOf(t) : t \in DocTypes}, MaxDocEntries)

\* State of one path of the file system.
Absent == [kind |-> "absent", syntax |-> "", doc |-> EmptyConfig]
Denied == [kind |-> "denied", syntax |-> "", doc |-> EmptyConfig]
Garbage == [kind |-> "file", syntax |-> "garbage", doc |-> EmptyConfig]
FileOf(syn, d) == [kind |-> "file", syntax |-> syn, doc |-> d]
CandidateStatus == {Absent, Denied, Garbage} \cup {FileOf("yaml", d) : d \in Docs}
ExplicitStatus ==
  {Denied, Garbage} \cup {FileOf(syn, d) : syn \in {"yaml", "json"}, d \in Docs}

VARIABLES fs, xdgFails, AllowXDGConfig, cfg, cfgNil, last
vars == <<fs, xdgFails, AllowXDGConfig, cfg, cfgNil, last>>

\* ------------------------------------------------------------------ errors
NoErr == [kind |-> "nil", cause |-> "", path |-> <<>>, ext |-> <<>>, key |-> ""]
ReadErr(name, cause) ==
  [kind |-> "read", cause |-> cause, path |-> name, ext |-> <<>>, key |-> ""]
ParseErr(name, cause, ext) ==
  [kind |-> "parse", cause |-> cause, path |-> name, ext |-> ext, key |-> ""]
XDGErr == [kind |-> "xdg", cause |-> "", path |-> <<>>, ext |-> <<>>, key |-> ""]
ErrConfigValidation(key) ==
  [kind |-> "validation", cause |-> "ErrConfigValidation", path |-> <<>>,
   ext |-> <<>>, key |-> key]
\* errors.Is(err, os.ErrNotExist)
IsNotExist(err) == err.kind = "read" /\ err.cause = "ErrNotExist"

\* --------------------------------------------------------- library helpers
\* Mutant of Ext: the search for the dot does not stop at a slash.
RECURSIVE ExtIgnoringSlash(_, _)
ExtIgnoringSlash(name, i) ==
  IF i < 1 THEN <<>>
  ELSE IF name[i] = "." THEN SubSeq(name, i, Len(name))
  ELSE ExtIgnoringSlash(name, i - 1)
Ext_ignoresSlash(name) == ExtIgnoringSlash(name, Len(name))

\* path.Ext: the suffix beginning at the final dot of the final
\* slash-separated element, empty if there is none.
RECURSIVE ExtFrom(_, _)
ExtFrom(name, i) ==
  IF i < 1 \/ name[i] = "/" THEN <<>>
  ELSE IF name[i] = "." THEN SubSeq(name, i, Len(name))
  ELSE ExtFrom(name, i - 1)
Ext(name) == ExtFrom(name, Len(name))

\* os.ReadFile: the file's content, or the error of the failed read.
ReadFile(name) ==
  CASE fs[name].kind = "absent" -> [file |-> Absent, err |-> "ErrNotExist"]
    [] fs[name].kind = "denied" -> [file |-> Denied, err |-> "ErrPermission"]
    [] OTHER -> [file |-> fs[name], err |-> ""]

\* Mutant of Unmarshal: the document's entries are not stored in the map.
Unmarshal_dropsDocument(c, doc) == c

\* Decoding into a map keeps the entries already in it and stores the
\* document's entries over them.
Unmarshal(c, doc) ==
  [k \in (DOMAIN c) \cup (DOMAIN doc) |-> IF k \in DOMAIN doc THEN doc[k] ELSE c[k]]

\* yaml.Unmarshal(file, cfg): JSON text is YAML text too.
YamlUnmarshal(file, c) ==
  IF file.syntax \in {"yaml", "json"}
  THEN [cfg |-> Unmarshal(c, file.doc), ok |-> TRUE]
  ELSE [cfg |-> c, ok |-> FALSE]

\* json.Unmarshal(file, cfg): the text is checked before anything is stored.
JsonUnmarshal(file, c) ==
  IF file.syntax = "json"
  THEN [cfg |-> Unmarshal(c, file.doc), ok |-> TRUE]
  ELSE [cfg |-> c, ok |-> FALSE]

\* -------------------------------------------------------------- operations
\* (cfg *Config) parse(name): read, pick the decoder by extension, decode.
parse(c, name) ==
  LET rd == ReadFile(name)
      ext == Ext(name)
  IN IF rd.err # ""
     THEN [cfg |-> c, err |-> ReadErr(name, rd.err)]
     ELSE IF ext \in {<<".", "y", "m", "l">>, <<".", "y", "a", "m", "l">>}
     THEN LET d == YamlUnmarshal(rd.file, c)
          IN [cfg |-> d.cfg,
              err |-> IF d.ok THEN NoErr ELSE ParseErr(name, "decode", <<>>)]
     ELSE IF ext = <<".", "j", "s", "o", "n">>
     THEN LET d == JsonUnmarshal(rd.file, c)
          IN [cfg |-> d.cfg,
              err |-> IF d.ok THEN NoErr ELSE ParseErr(name, "decode", <<>>)]
     ELSE [cfg |-> c, err |-> ParseErr(name, "ErrUnsupportedFileExt", ext)]

\* Mutant of parseFirstExist: every error, not only not-found, moves on to
\* the next name.
RECURSIVE parseFirstExist_anyErrorContinues(_, _, _)
parseFirstExist_anyErrorContinues(c, names, reads) ==
  IF names = <<>>
  THEN [cfg |-> [k \in {DefaultConfigEnv} |-> EmptySession], err |-> NoErr,
        reads |-> reads, synth |-> TRUE]
  ELSE LET name == Head(names)
       IN IF name = <<>>
          THEN parseFirstExist_anyErrorContinues(c, Tail(names), reads)
          ELSE LET r == parse(c, name)
               IN IF r.err = NoErr
                  THEN [cfg |-> r.cfg, err |-> NoErr,
                        reads |-> Append(reads, name), synth |-> FALSE]
                  ELSE parseFirstExist_anyErrorContinues(r.cfg, Tail(names),
                                                         Append(reads, name))

\* Mutant of parseFirstExist: when no name exists the Config is left as it
\* is instead of receiving the default entry.
RECURSIVE parseFirstExist_noDefault(_, _, _)
parseFirstExist_noDefault(c, names, reads) ==
  IF names = <<>>
  THEN [cfg |-> c, err |-> NoErr, reads |-> reads, synth |-> FALSE]
  ELSE LET name == Head(names)
       IN IF name = <<>>
          THEN parseFirstExist_noDefault(c, Tail(names), reads)
          ELSE LET r == parse(c, name)
               IN IF r.err = NoErr
                  THEN [cfg |-> r.cfg, err |-> NoErr,
                        reads |-> Append(reads, name), synth |-> FALSE]
                  ELSE IF ~IsNotExist(r.err)
                  THEN [cfg |-> r.cfg, err |-> r.err,
                        reads |-> Append(reads, name), synth |-> FALSE]
                  ELSE parseFirstExist_noDefault(r.cfg, Tail(names),
                                                 Append(reads, name))

\* (cfg *Config) parseFirstExist(names...): reads carries the files read so
\* far by this call.
RECURSIVE parseFirstExist(_, _, _)
parseFirstExist(c, names, reads) ==
  IF names = <<>>
  THEN [cfg |-> [k \in {DefaultConfigEnv} |-> EmptySession], err |-> NoErr,
        reads |-> reads, synth |-> TRUE]
  ELSE LET name == Head(names)
       IN IF name = <<>>
          THEN parseFirstExist(c, Tail(names), reads)
          ELSE LET r == parse(c, name)
               IN IF r.err = NoErr
                  THEN [cfg |-> r.cfg, err |-> NoErr,
                        reads |-> Append(reads, name), synth |-> FALSE]
                  ELSE IF ~IsNotExist(r.err)
                  THEN [cfg |-> r.cfg, err |-> r.err,
                        reads |-> Append(reads, name), synth |-> FALSE]
                  ELSE parseFirstExist(r.cfg, Tail(names), Append(reads, name))

\* xdg.ConfigFile(filepath.Join("gorcon", DefaultConfigName))
ConfigFile == IF xdgFails THEN [path |-> <<>>, err |-> XDGErr]
              ELSE [path |-> XDGConfigPath, err |-> NoErr]

\* Mutant of ParseFromFile: the working-directory file is tried first.
ParseFromFile_cwdFirst(c, name) ==
  IF name # <<>>
  THEN LET r == parse(c, name)
       IN [cfg |-> r.cfg, err |-> r.err, reads |-> <<name>>, synth |-> FALSE,
           lookup |-> FALSE]
  ELSE IF AllowXDGConfig /\ ConfigFile.err # NoErr
  THEN [cfg |-> c, err |-> ConfigFile.err, reads |-> <<>>, synth |-> FALSE,
        lookup |-> TRUE]
  ELSE LET configPath == IF AllowXDGConfig THEN ConfigFile.path ELSE <<>>
           r == parseFirstExist(c, <<DefaultConfigName, configPath>>, <<>>)
       IN [cfg |-> r.cfg, err |-> r.err, reads |-> r.reads, synth |-> r.synth,
           lookup |-> AllowXDGConfig]

\* Mutant of ParseFromFile: an explicit name that does not exist falls back
\* to the working-directory file and the default entry.
ParseFromFile_explicitFallsBack(c, name) ==
  IF AllowXDGConfig /\ name = <<>> /\ ConfigFile.err # NoErr
  THEN [cfg |-> c, err |-> ConfigFile.err, reads |-> <<>>, synth |-> FALSE,
        lookup |-> TRUE]
  ELSE LET configPath == IF AllowXDGConfig /\ name = <<>> THEN ConfigFile.path ELSE <<>>
           r == parseFirstExist(c, <<name, configPath, DefaultConfigName>>, <<>>)
       IN [cfg |-> r.cfg, err |-> r.err, reads |-> r.reads, synth |-> r.synth,
           lookup |-> AllowXDGConfig /\ name = <<>>]

\* Mutant of ParseFromFile: AllowXDGConfig is not consulted.
ParseFromFile_ignoresFlag(c, name) ==
  IF name # <<>>
  THEN LET r == parse(c, name)
       IN [cfg |-> r.cfg, err |-> r.err, reads |-> <<name>>, synth |-> FALSE,
           lookup |-> FALSE]
  ELSE IF ConfigFile.err # NoErr
  THEN [cfg |-> c, err |-> ConfigFile.err, reads |-> <<>>, synth |-> FALSE,
        lookup |-> TRUE]
  ELSE LET r == parseFirstExist(c, <<ConfigFile.path, DefaultConfigName>>, <<>>)
       IN [cfg |-> r.cfg, err |-> r.err, reads |-> r.reads, synth |-> r.synth,
           lookup |-> TRUE]

\* Mutant of ParseFromFile: a failed XDG resolution is swallowed and the
\* search goes on with the working-directory file.
ParseFromFile_swallowsXDGErr(c, name) ==
  IF name # <<>>
  THEN LET r == parse(c, name)
       IN [cfg |-> r.cfg, err |-> r.err, reads |-> <<name>>, synth |-> FALSE,
           lookup |-> FALSE]
  ELSE LET configPath == IF AllowXDGConfig THEN ConfigFile.path ELSE <<>>
           r == parseFirstExist(c, <<configPath, DefaultConfigName>>, <<>>)
       IN [cfg |-> r.cfg, err |-> r.err, reads |-> r.reads, synth |-> r.synth,
           lookup |-> AllowXDGConfig]

\* (cfg *Config) ParseFromFile(name); lookup records whether xdg.ConfigFile
\* was called.
ParseFromFile(c, name) ==
  IF name # <<>>
  THEN LET r == parse(c, name)
       IN [cfg |-> r.cfg, err |-> r.err, reads |-> <<name>>, synth |-> FALSE,
           lookup |-> FALSE]
  ELSE IF AllowXDGConfig /\ ConfigFile.err # NoErr
  THEN [cfg |-> c, err |-> ConfigFile.err, reads |-> <<>>, synth |-> FALSE,
        lookup |-> TRUE]
  ELSE LET configPath == IF AllowXDGConfig THEN ConfigFile.path ELSE <<>>
           r == parseFirstExist(c, <<configPath, DefaultConfigName>>, <<>>)
       IN [cfg |-> r.cfg, err |-> r.err, reads |-> r.reads, synth |-> r.synth,
           lookup |-> AllowXDGConfig]

\* Mutant of Validate: web-rcon is missing from the accepted types.
Validate_withoutWebRCON(isNil, c) ==
  IF isNil THEN {ErrConfigValidation("")}
  ELSE LET bad == {k \in DOMAIN c :
                     c[k].Type \notin {"", ProtocolRCON, ProtocolTELNET}}
       IN IF bad = {} THEN {NoErr} ELSE {ErrConfigValidation(k) : k \in bad}

\* (cfg *Config) Validate(): the errors it can return; map iteration order
\* is unspecified, so any entry with an unsupported type may be the one named.
Validate(isNil, c) ==
  IF isNil THEN {ErrConfigValidation("")}
  ELSE LET bad == {k \in DOMAIN c :
                     c[k].Type \notin {"", ProtocolRCON, ProtocolTELNET, ProtocolWebRCON}}
       IN IF bad = {} THEN {NoErr} ELSE {ErrConfigValidation(k) : k \in bad}

\* Mutant of NewConfig: a validation error also returns a nil Config.
NewConfig_nilOnInvalid(name) ==
  LET r == ParseFromFile(EmptyConfig, name)
  IN IF r.err # NoErr
     THEN {[cfg |-> EmptyConfig, isNil |-> TRUE, err |-> r.err, reads |-> r.reads,
            synth |-> r.synth, lookup |-> r.lookup, validated |-> FALSE]}
     ELSE {[cfg |-> IF e = NoErr THEN r.cfg ELSE EmptyConfig, isNil |-> e # NoErr,
            err |-> e, reads |-> r.reads,
            synth |-> r.synth, lookup |-> r.lookup, validated |-> TRUE]
             : e \in Validate(FALSE, r.cfg)}

\* NewConfig(name): the results (*Config, error) it can return.
NewConfig(name) ==
  LET r == ParseFromFile(EmptyConfig, name)
  IN IF r.err # NoErr
     THEN {[cfg |-> EmptyConfig, isNil |-> TRUE, err |-> r.err, reads |-> r.reads,
            synth |-> r.synth, lookup |-> r.lookup, validated |-> FALSE]}
     ELSE {[cfg |-> r.cfg, isNil |-> FALSE, err |-> e, reads |-> r.reads,
            synth |-> r.synth, lookup |-> r.lookup, validated |-> TRUE]
             : e \in Validate(FALSE, r.cfg)}

\* ------------------------------------------------------------------ actions
NoCall == [op |-> "none", name |-> <<>>, err |-> NoErr, reads |-> <<>>,
           synth |-> FALSE, lookup |-> FALSE, validated |-> FALSE]

\* The file system holds the two candidates and at most one explicit file;
\* the XDG resolution can fail only while no XDG config file exists.
FileSystems ==
  {[p \in Paths |-> IF p = XDGConfigPath THEN x
                    ELSE IF p = DefaultConfigName THEN d
                    ELSE IF p = n THEN e ELSE Absent]
     : x \in CandidateStatus, d \in CandidateStatus,
       n \in ExplicitNames, e \in ExplicitStatus \cup {Absent}}

Init ==
  /\ fs \in FileSystems
  /\ xdgFails \in {b \in BOOLEAN : b => fs[XDGConfigPath] = Absent}
  /\ AllowXDGConfig = TRUE
  /\ cfg = EmptyConfig
  /\ cfgNil = FALSE
  /\ last = NoCall

\* cfg, err := NewConfig(name)
NewConfigCall(name) ==
  \E o \in NewConfig(name) :
    /\ cfg' = o.cfg
    /\ cfgNil' = o.isNil
    /\ last' = [op |-> "NewConfig", name |-> name, err |-> o.err, reads |-> o.reads,
                synth |-> o.synth, lookup |-> o.lookup, validated |-> o.validated]
    /\ UNCHANGED <<fs, xdgFails, AllowXDGConfig>>

\* err := cfg.ParseFromFile(name) on the Config the caller holds
ParseFromFileCall(name) ==
  /\ ~cfgNil
  /\ LET r == ParseFromFile(cfg, name)
     IN /\ cfg' = r.cfg
        /\ last' = [op |-> "ParseFromFile", name |-> name, err |-> r.err,
                    reads |-> r.reads, synth |-> r.synth, lookup |-> r.lookup,
                    validated |-> FALSE]
  /\ UNCHANGED <<fs, xdgFails, AllowXDGConfig, cfgNil>>

\* err := cfg.Validate()
ValidateCall ==
  \E e \in Validate(cfgNil, cfg) :
    /\ last' = [NoCall EXCEPT !.op = "Validate", !.err = e, !.validated = TRUE]
    /\ UNCHANGED <<fs, xdgFails, AllowXDGConfig, cfg, cfgNil>>

\* config.AllowXDGConfig = b
SetAllowXDGConfig(b) ==
  /\ AllowXDGConfig # b
  /\ AllowXDGConfig' = b
  /\ last' = [NoCall EXCEPT !.op = "SetAllowXDGConfig"]
  /\ UNCHANGED <<fs, xdgFails, cfg, cfgNil>>

Next ==
  \/ \E name \in Names : NewConfigCall(name)
  \/ \E name \in Names : ParseFromFileCall(name)
  \/ ValidateCall
  \/ \E b \in BOOLEAN : SetAllowXDGConfig(b)

Spec == Init /\ [][Next]_vars

\* Validate as a function of the Config alone: any Config a caller can hold.
AllFilesAbsent == [p \in Paths |-> Absent]
InitValidate ==
  /\ fs = AllFilesAbsent
  /\ xdgFails = FALSE
  /\ AllowXDGConfig = TRUE
  /\ cfg \in ConfigsOver(ValidateKeys,
                         {EmptySession} \cup {SessionOf(t) : t \in AllTypes \ {""}},
                         MaxEntries)
  /\ cfgNil = FALSE
  /\ last = NoCall
NextValidate == ValidateCall
SpecValidate == InitValidate /\ [][NextValidate]_vars

TypeOK ==
  /\ fs \in [Paths -> CandidateStatus \cup ExplicitStatus]
  /\ xdgFails \in BOOLEAN
  /\ AllowXDGConfig \in BOOLEAN
  /\ cfgNil \in BOOLEAN
  /\ DOMAIN cfg \subseteq ValidateKeys
  /\ last.op \in {"none", "NewConfig", "ParseFromFile", "Validate", "SetAllowXDGConfig"}

\* ---------------------------------------------------- vocabulary of claims
\* The last call was a load (through NewConfig or ParseFromFile).
IsLoad == last.op \in {"NewConfig", "ParseFromFile"}
\* The load phase of the last call returned an error.
LoadFailed == last.err.kind \in {"read", "parse", "xdg"}
\* The load phase of the last call succeeded.
LoadOK == IsLoad /\ ~LoadFailed
\* A candidate (both end in .yaml) whose file exists and decodes.
CandidateParses(p) == fs[p].kind = "file" /\ fs[p].syntax \in {"yaml", "json"}
\* A candidate that exists but cannot be read or decoded.
CandidateBroken(p) == fs[p] \in {Denied, Garbage}
\* The candidates an empty-path load goes through, in order.
Candidates == IF AllowXDGConfig THEN <<XDGConfigPath, DefaultConfigName>>
              ELSE <<DefaultConfigName>>
\* An empty-path load whose XDG resolution, if attempted, succeeded.
IsSearch == IsLoad /\ last.name = <<>> /\ ~(AllowXDGConfig /\ xdgFails)
DefaultOnly == [k \in {DefaultConfigEnv} |-> EmptySession]
Supported(t) == t = "rcon" \/ t = "telnet" \/ t = "web-rcon"
\* An explicit file that exists, has a supported extension and decodes.
ExplicitParses(n) ==
  /\ fs[n].kind = "file"
  /\ \/ n = YmlName /\ fs[n].syntax \in {"yaml", "json"}
     \/ n = JsonName /\ fs[n].syntax = "json"

\* ------------------------------------------------------------------ claims
\* C1: in an empty-path load, the first candidate that exists but fails to
\* read or decode makes the load return that candidate's error at once: the
\* files read end with it, and no default entry is synthesized.
C1_FatalCandidateStops ==
  IsSearch =>
    \A i \in 1..Len(Candidates) :
      (CandidateBroken(Candidates[i]) /\ \A j \in 1..(i - 1) : fs[Candidates[j]] = Absent)
        => /\ last.err.kind = IF fs[Candidates[i]] = Denied THEN "read" ELSE "parse"
           /\ last.err.path = Candidates[i]
           /\ last.reads = SubSeq(Candidates, 1, i)
           /\ ~last.synth
           /\ (last.op = "NewConfig" => cfgNil)
C1_Witness ==
  /\ IsSearch /\ AllowXDGConfig
  /\ fs[XDGConfigPath] = Garbage /\ CandidateParses(DefaultConfigName)
  /\ last.err.kind = "parse" /\ last.reads = <<XDGConfigPath>>

\* C2: in an empty-path load the XDG file is tried before rcon.yaml, the
\* working-directory file is read only after the XDG file was not found or
\* skipped, and an XDG file that parses is the one loaded.
C2_CandidateOrder ==
  IsSearch =>
    /\ (Len(last.reads) >= 1 /\ last.reads[Len(last.reads)] = DefaultConfigName)
         => \/ ~last.lookup /\ last.reads = <<DefaultConfigName>>
            \/ /\ fs[XDGConfigPath] = Absent
               /\ last.reads = <<XDGConfigPath, DefaultConfigName>>
    /\ (AllowXDGConfig /\ CandidateParses(XDGConfigPath))
         => /\ last.reads = <<XDGConfigPath>>
            /\ ~LoadFailed
            /\ \A k \in DOMAIN fs[XDGConfigPath].doc :
                 k \in DOMAIN cfg /\ cfg[k] = fs[XDGConfigPath].doc[k]
            /\ (last.op = "NewConfig" => cfg = fs[XDGConfigPath].doc)
C2_Witness ==
  /\ IsSearch /\ last.op = "NewConfig" /\ AllowXDGConfig
  /\ CandidateParses(XDGConfigPath) /\ CandidateParses(DefaultConfigName)
  /\ fs[XDGConfigPath].doc # fs[DefaultConfigName].doc
  /\ fs[XDGConfigPath].doc # EmptyConfig
  /\ last.reads = <<XDGConfigPath>>

\* C3: an empty-path load whose attempted candidates are all absent returns
\* no error and leaves exactly the entry "default" with an empty Session;
\* NewConfig then reports no validation error either.
C3_AllAbsentGivesDefault ==
  (IsSearch /\ \A i \in 1..Len(Candidates) : fs[Candidates[i]] = Absent)
    => /\ last.err = NoErr
       /\ ~cfgNil
       /\ DOMAIN cfg = {"default"}
       /\ cfg["default"] = [Address |-> "", Password |-> "", Type |-> ""]
C3_Witness ==
  /\ IsSearch /\ last.op = "NewConfig" /\ ~AllowXDGConfig
  /\ CandidateParses(XDGConfigPath) /\ fs[DefaultConfigName] = Absent
  /\ cfg = DefaultOnly /\ last.err = NoErr

\* C4: a load with an explicit path reads that file only; when the file is
\* missing, unreadable or undecodable the error about it is returned, with
\* no fallback to a candidate and no synthesized default.
C4_ExplicitPathOnly ==
  (IsLoad /\ last.name # <<>>)
    => /\ last.reads = <<last.name>>
       /\ ~last.lookup
       /\ ~last.synth
       /\ ~ExplicitParses(last.name)
            => /\ last.err.kind \in {"read", "parse"}
               /\ last.err.path = last.name
               /\ (fs[last.name] = Absent => IsNotExist(last.err))
               /\ (last.op = "NewConfig" => cfgNil)
C4_Witness ==
  /\ IsLoad /\ last.name = JsonName /\ fs[JsonName] = Absent
  /\ CandidateParses(XDGConfigPath) /\ CandidateParses(DefaultConfigName)
  /\ IsNotExist(last.err)

\* C5: on a non-nil Config, Validate returns an error exactly when some
\* entry has a type that is neither empty nor rcon, telnet or web-rcon, and
\* the key the error names is the key of such an entry.
C5_ValidateIffUnsupportedType ==
  (last.op = "Validate" /\ ~cfgNil)
    => /\ (last.err # NoErr)
            <=> (\E k \in DOMAIN cfg : cfg[k].Type # "" /\ ~Supported(cfg[k].Type))
       /\ (last.err # NoErr)
            => /\ last.err.kind = "validation"
               /\ last.err.key \in DOMAIN cfg
               /\ cfg[last.err.key].Type # ""
               /\ ~Supported(cfg[last.err.key].Type)
C5_Witness ==
  /\ last.op = "Validate" /\ ~cfgNil /\ last.err.kind = "validation"
  /\ \E k \in DOMAIN cfg : Supported(cfg[k].Type)
  /\ \E k \in DOMAIN cfg : cfg[k].Type = "bogus"
\* The extension path.Ext finds in the names without a supported one.
UnsupportedExtOf(n) ==
  CASE n = TxtName -> <<".", "t", "x", "t">>
    [] n = UpperName -> <<".", "Y", "A", "M", "L">>
    [] n = NoExtName -> <<>>
UnsupportedNames == {TxtName, UpperName, NoExtName}
IsUnsupportedExtErr(err, n) ==
  /\ err.kind = "parse"
  /\ err.cause = "ErrUnsupportedFileExt"
  /\ err.path = n
  /\ err.ext = UnsupportedExtOf(n)

\* C6 as stated: loading any path whose extension is not .yml, .yaml or
\* .json always gives the unsupported-extension error naming the extension.
C6_AnyPathUnsupportedExt ==
  (IsLoad /\ last.name \in UnsupportedNames) => IsUnsupportedExtErr(last.err, last.name)

\* C6, amended: loading a path that can be read and whose extension is not
\* exactly .yml, .yaml or .json gives the unsupported-extension error naming
\* the extension, whatever the file holds; a path that cannot be read gives
\* the read error; the decoder follows the extension, not the content.
C6_ReadableUnsupportedExt ==
  IsLoad =>
    /\ (last.name \in UnsupportedNames /\ fs[last.name].kind = "file")
         => IsUnsupportedExtErr(last.err, last.name)
    /\ (last.name \in UnsupportedNames /\ fs[last.name].kind # "file")
         => last.err.kind = "read" /\ last.err.path = last.name
    /\ (last.name = JsonName /\ fs[JsonName].kind = "file" /\ fs[JsonName].syntax = "yaml")
         => last.err.kind = "parse" /\ last.err.cause = "decode"
    /\ (last.name = YmlName /\ fs[YmlName].kind = "file" /\ fs[YmlName].syntax = "json")
         => ~LoadFailed
C6_Witness ==
  /\ IsLoad /\ last.name = NoExtName
  /\ fs[NoExtName].kind = "file" /\ fs[NoExtName].syntax = "yaml"
  /\ IsUnsupportedExtErr(last.err, NoExtName)

\* The file a successful load decoded: the last one it read.
LoadedDoc == fs[last.reads[Len(last.reads)]].doc
AllCandidatesAbsent == \A i \in 1..Len(Candidates) : fs[Candidates[i]] = Absent

\* C7 as stated: after a successful load the Config is the synthesized
\* default (only when every candidate was absent) or exactly the entries of
\* the one file parsed, and it never has zero entries.
C7_ExactlyFileEntriesNeverEmpty ==
  LoadOK =>
    /\ \/ cfg = DefaultOnly /\ last.name = <<>> /\ AllCandidatesAbsent
       \/ Len(last.reads) >= 1 /\ ~last.synth /\ cfg = LoadedDoc
    /\ cfg # EmptyConfig

\* C7, amended: after a successful load into a Config that had no entries
\* before the call (as in NewConfig), the Config is the synthesized default
\* (only when every candidate was absent) or exactly the entries of the one
\* file parsed, which may be none.
C7_ExactlyFileEntriesFromEmpty ==
  [][(LoadOK' /\ (last'.op = "ParseFromFile" => cfg = EmptyConfig))
       => \/ cfg' = DefaultOnly /\ last'.synth /\ last'.name = <<>> /\ AllCandidatesAbsent'
          \/ /\ Len(last'.reads) >= 1 /\ ~last'.synth
             /\ cfg' = LoadedDoc'
             /\ \/ last'.name # <<>> /\ ExplicitParses(last'.name)
                \/ last'.name = <<>> /\ CandidateParses(last'.reads[Len(last'.reads)])]_vars
C7_Witness ==
  /\ LoadOK /\ last.op = "NewConfig" /\ last.name = <<>>
  /\ last.reads = <<XDGConfigPath, DefaultConfigName>>
  /\ cfg = EmptyConfig

\* C8 as stated: the XDG lookup happens exactly when the path is empty and
\* AllowXDGConfig is set; with the flag off the only file a load ever reads
\* is rcon.yaml in the working directory.
C8_LookupIffFlag ==
  IsLoad =>
    /\ last.lookup <=> (last.name = <<>> /\ AllowXDGConfig)
    /\ ~AllowXDGConfig
         => /\ ~last.lookup
            /\ \A i \in 1..Len(last.reads) : last.reads[i] = DefaultConfigName

\* C8, amended: the XDG lookup happens exactly when the path is empty and
\* AllowXDGConfig is set; with the flag off the lookup is skipped, and a
\* load with an empty path reads no file but rcon.yaml in the working
\* directory (a load with an explicit path still reads that path).
C8_LookupIffFlagEmptyPath ==
  IsLoad =>
    /\ last.lookup <=> (last.name = <<>> /\ AllowXDGConfig)
    /\ ~AllowXDGConfig
         => /\ ~last.lookup
            /\ last.err.kind # "xdg"
            /\ last.name = <<>> => last.reads = <<DefaultConfigName>>
            /\ last.name # <<>> => last.reads = <<last.name>>
C8_Witness ==
  /\ IsLoad /\ last.name = <<>> /\ ~AllowXDGConfig /\ xdgFails
  /\ last.reads = <<DefaultConfigName>> /\ ~LoadFailed

\* C9: when the XDG lookup is attempted and the resolution fails, the load
\* returns that error, reads no file, leaves the Config as it was and
\* synthesizes no default.
C9_ResolutionFailureFatal ==
  [][(IsLoad' /\ last'.name = <<>> /\ AllowXDGConfig' /\ xdgFails')
       => /\ last'.err = XDGErr
          /\ last'.reads = <<>>
          /\ ~last'.synth
          /\ (last'.op = "ParseFromFile" => cfg' = cfg /\ ~cfgNil')
          /\ (last'.op = "NewConfig" => cfgNil')]_vars
C9_Witness ==
  /\ last.op = "ParseFromFile" /\ last.name = <<>> /\ AllowXDGConfig /\ xdgFails
  /\ last.err = XDGErr /\ cfg # EmptyConfig /\ cfg # DefaultOnly
  /\ CandidateParses(DefaultConfigName)

\* C10: NewConfig loads, then validates: a load error gives a nil Config
\* and Validate is not run; a validation error gives the loaded Config with
\* that error and no further file is read; a nil error comes only with a
\* loaded Config whose entries all validate.
C10_LoadThenValidate ==
  last.op = "NewConfig" =>
    /\ LoadFailed => cfgNil /\ ~last.validated
    /\ ~LoadFailed => ~cfgNil /\ last.validated
    /\ last.err.kind = "validation"
         => /\ ~cfgNil
            /\ last.err.key \in DOMAIN cfg /\ ~Supported(cfg[last.err.key].Type)
            /\ Len(last.reads) >= 1 /\ cfg = LoadedDoc
            /\ (last.name = <<>> /\ AllowXDGConfig /\ fs[XDGConfigPath] # Absent)
                 => last.reads = <<XDGConfigPath>>
    /\ last.err = NoErr
         => /\ ~cfgNil
            /\ \A k \in DOMAIN cfg : cfg[k].Type = "" \/ Supported(cfg[k].Type)
    /\ (\E k \in DOMAIN cfg : cfg[k].Type # "" /\ ~Supported(cfg[k].Type))
         => last.err.kind = "validation"
C10_Witness ==
  /\ last.op = "NewConfig" /\ last.name = <<>> /\ AllowXDGConfig
  /\ last.err.kind = "validation" /\ ~cfgNil
  /\ last.reads = <<XDGConfigPath>>
  /\ CandidateParses(DefaultConfigName)
  /\ \A k \in DOMAIN fs[DefaultConfigName].doc : Supported(fs[DefaultConfigName].doc[k].Type)

====
